---- MODULE Spec2Model ----
(***************************************************************************)
(* Approval workflow of the expense tracker: one expense of one owner, the *)
(* company's approval rules, the expense's approval records and the        *)
(* notifications, driven by the request handlers of expenses/views.py and  *)
(* expenses/frontend_views.py and by ApprovalWorkflowService               *)
(* (expenses/services.py).                                                 *)
(*                                                                         *)
(* Spec     : every request handler runs as one atomic step.               *)
(* SpecConc : the decision handlers (process_approval with its             *)
(*            check_expense_status) run as two interleaved requests, one   *)
(*            database statement per step, each holding its own in-memory  *)
(*            copies of the record and of the expense.                     *)
(***************************************************************************)
EXTENDS Integers, Sequences, FiniteSets, TLC

\* ------------------------------------------------------------------ bounds
\* number of requests served in one behaviour (also the range of timezone.now())
MaxClock == 4
\* number of decision requests accepted in one behaviour of SpecConc
MaxDecisions == 2
\* number of approval rules the company stores in one behaviour of SpecAdmin
MaxRules == 2

\* ------------------------------------------------------------------ values
Owner == "owner"
Approvers == {"a1", "a2", "a3", "a4"}
NoUser == "none"
AllUsers == Approvers \cup {Owner}

\* a DateTimeField that is NULL
NoTime == 0
\* a DecimalField bound that is NULL
NoAmount == -1
\* ApprovalRule.percentage_threshold that is NULL
NoThreshold == -1
\* Expense.exchange_rate that is NULL
NoRate == -1
\* company.currency, and the currencies an expense is entered in
CompanyCurrency == "USD"
Currencies == {"USD", "EUR"}
\* ExpenseApproval.comments that is NULL, and the comments a decision request carries
NoComments == "null"
RequestComments == "looks fine"

NoStep == [rule |-> 0, step_number |-> 0]

STATUS_CHOICES == {"draft", "pending", "approved", "rejected", "cancelled"}
APPROVAL_STATUS_CHOICES == {"pending", "approved", "rejected"}
RULE_TYPES == {"percentage", "specific", "hybrid"}
NOTIFICATION_TYPES ==
    {"approval_request", "expense_approved", "expense_rejected", "expense_submitted"}

TerminalStatus == {"approved", "rejected", "cancelled"}

VARIABLES
    rules,          \* ApprovalRule rows of the company, in queryset order, each with its steps
    manager,        \* expense.user.manager (NoUser when the owner has none)
    expense,        \* the Expense row (exists = FALSE before it is created)
    approvals,      \* ExpenseApproval rows of the expense, in created_at order
    notifications,  \* Notification rows, counted per (user, notification_type)
    clock,          \* timezone.now() of the last request that was served
    response,       \* outcome of the last request: "ok" or "error"
    pc,             \* SpecConc: position of each decision request
    req,            \* SpecConc: the request's arguments (record, status, entry point)
    lexp,           \* SpecConc: the request's in-memory Expense object
    ltotal,         \* SpecConc: total_approvers read by the request
    hist            \* SpecConc: accepted decisions and their expense.save() calls, in order

vars == <<rules, manager, expense, approvals, notifications, clock, response,
          pc, req, lexp, ltotal, hist>>

dbvars == <<rules, manager, expense, approvals, notifications>>
concvars == <<pc, req, lexp, ltotal, hist>>

\* ------------------------------------------------------------ rule inputs
Rule(t, thr, sp, mgr, st, act, lo, hi) ==
    [rule_type |-> t, percentage_threshold |-> thr, specific_approver |-> sp,
     is_manager_approver |-> mgr, steps |-> st, is_active |-> act,
     min_amount |-> lo, max_amount |-> hi]

StepLists == {<< >>, <<"a1">>, <<"a1", "a2">>}
Thresholds == {50, 100}

PercentageRules ==
    {Rule("percentage", thr, NoUser, mgr, st, TRUE, NoAmount, NoAmount) :
        thr \in Thresholds, mgr \in BOOLEAN, st \in StepLists}
SpecificRules ==
    {Rule("specific", 0, sp, mgr, st, TRUE, NoAmount, NoAmount) :
        sp \in {"a1", "a3"}, mgr \in BOOLEAN, st \in {<< >>, <<"a1", "a2">>}}
HybridRules ==
    {Rule("hybrid", 50, "a1", TRUE, <<"a1", "a2">>, TRUE, NoAmount, NoAmount)}
InactiveRules ==
    {Rule("percentage", 50, NoUser, TRUE, <<"a1">>, FALSE, NoAmount, NoAmount)}

RuleChoices == PercentageRules \cup SpecificRules \cup HybridRules \cup InactiveRules

RuleLists ==
    {<< >>} \cup {<<r>> : r \in RuleChoices}
            \cup {<<r1, r2>> : r1 \in PercentageRules \cup HybridRules, r2 \in SpecificRules}
            \cup {<<r1, r2>> : r1 \in SpecificRules, r2 \in PercentageRules}

Managers == {NoUser, "a1", "a3"}

\* ---------------------------------------------------------------- helpers
NoNotifications == [k \in AllUsers \X NOTIFICATION_TYPES |-> 0]

\* Notification.objects.create(user=u, notification_type=t, ...)
NotificationCreate(n, u, t) == [n EXCEPT ![<<u, t>>] = @ + 1]

\* ApprovalRule.applies_to_expense
applies_to_expense(rule, exp) ==
    IF ~rule.is_active THEN FALSE
    ELSE IF rule.min_amount # NoAmount /\ rule.min_amount # 0
            /\ exp.amount_in_company_currency < rule.min_amount THEN FALSE
    ELSE IF rule.max_amount # NoAmount /\ rule.max_amount # 0
            /\ exp.amount_in_company_currency > rule.max_amount THEN FALSE
    ELSE TRUE

\* ApprovalWorkflowService.get_applicable_rules: indices (ids) of the applicable rules
get_applicable_rules(rs, exp) ==
    SelectSeq([i \in 1..Len(rs) |-> i], LAMBDA i : applies_to_expense(rs[i], exp))

\* ------------------------------------------------- chain construction
NewApproval(u, step) ==
    [approver |-> u, step |-> step, status |-> "pending", comments |-> NoComments,
     approved_at |-> NoTime]

HasRecord(apps, u) == \E i \in 1..Len(apps) : apps[i].approver = u

\* mutant: the record is created without looking for an existing one
get_or_create_AlwaysCreate(apps, u, step) ==
    [approvals |-> Append(apps, NewApproval(u, step)), created |-> TRUE]

\* mutant: the lookup is keyed by (approver, step) instead of (expense, approver)
get_or_create_ByStep(apps, u, step) ==
    IF \E i \in 1..Len(apps) : apps[i].approver = u /\ apps[i].step = step
    THEN [approvals |-> apps, created |-> FALSE]
    ELSE [approvals |-> Append(apps, NewApproval(u, step)), created |-> TRUE]

\* mutant: update_or_create, an existing record is reset to the defaults
get_or_create_Update(apps, u, step) ==
    IF HasRecord(apps, u)
    THEN [approvals |-> [i \in 1..Len(apps) |->
                            IF apps[i].approver = u
                            THEN [apps[i] EXCEPT !.status = "pending", !.step = step]
                            ELSE apps[i]],
          created |-> FALSE]
    ELSE [approvals |-> Append(apps, NewApproval(u, step)), created |-> TRUE]

\* ExpenseApproval.objects.get_or_create(expense=expense, approver=u, defaults={...})
get_or_create(apps, u, step) ==
    IF HasRecord(apps, u)
    THEN [approvals |-> apps, created |-> FALSE]
    ELSE [approvals |-> Append(apps, NewApproval(u, step)), created |-> TRUE]

\* mutant: the manager of the owner is never asked
RuleRequests_NoManager(rs, i, mgr) ==
    [j \in 1..Len(rs[i].steps) |->
        [approver |-> rs[i].steps[j], step |-> [rule |-> i, step_number |-> j]]]

\* the get_or_create calls one rule makes: the manager first, then its steps in step_number order
RuleRequests(rs, i, mgr) ==
    (IF rs[i].is_manager_approver /\ mgr # NoUser
     THEN <<[approver |-> mgr, step |-> NoStep]>> ELSE << >>)
    \o [j \in 1..Len(rs[i].steps) |->
            [approver |-> rs[i].steps[j], step |-> [rule |-> i, step_number |-> j]]]

RECURSIVE WorkflowRequests(_, _, _)
WorkflowRequests(rs, ids, mgr) ==
    IF ids = << >> THEN << >>
    ELSE RuleRequests(rs, Head(ids), mgr) \o WorkflowRequests(rs, Tail(ids), mgr)

\* mutant: the approval_request notification is sent whether or not a record was created
EnsureRecord_AlwaysNotify(st, rq) ==
    [approvals |-> get_or_create(st.approvals, rq.approver, rq.step).approvals,
     notifications |-> NotificationCreate(st.notifications, rq.approver, "approval_request")]

\* one get_or_create and, if it created the record, the approval_request notification
EnsureRecord(st, rq) ==
    LET g == get_or_create(st.approvals, rq.approver, rq.step) IN
    [approvals |-> g.approvals,
     notifications |-> IF g.created
                       THEN NotificationCreate(st.notifications, rq.approver, "approval_request")
                       ELSE st.notifications]

RECURSIVE EnsureRecords(_, _)
EnsureRecords(st, rqs) ==
    IF rqs = << >> THEN st
    ELSE EnsureRecords(EnsureRecord(st, Head(rqs)), Tail(rqs))

\* mutant: an expense without applicable rules is left as it is
create_approval_workflow_NoAutoApprove(exp, apps, notifs, rs, mgr, now) ==
    LET st == EnsureRecords([approvals |-> apps, notifications |-> notifs],
                            WorkflowRequests(rs, get_applicable_rules(rs, exp), mgr)) IN
    [expense |-> exp, approvals |-> st.approvals, notifications |-> st.notifications]

\* mutant: building a chain puts the expense back under review
create_approval_workflow_Reopen(exp, apps, notifs, rs, mgr, now) ==
    LET ids == get_applicable_rules(rs, exp) IN
    IF ids = << >>
    THEN [expense |-> [exp EXCEPT !.status = "approved", !.approved_at = now],
          approvals |-> apps, notifications |-> notifs]
    ELSE LET st == EnsureRecords([approvals |-> apps, notifications |-> notifs],
                                 WorkflowRequests(rs, ids, mgr)) IN
         [expense |-> [exp EXCEPT !.status = "pending", !.approved_at = NoTime],
          approvals |-> st.approvals, notifications |-> st.notifications]

\* ApprovalWorkflowService.create_approval_workflow
create_approval_workflow(exp, apps, notifs, rs, mgr, now) ==
    LET ids == get_applicable_rules(rs, exp) IN
    IF ids = << >>
    THEN [expense |-> [exp EXCEPT !.status = "approved", !.approved_at = now],
          approvals |-> apps, notifications |-> notifs]
    ELSE LET st == EnsureRecords([approvals |-> apps, notifications |-> notifs],
                                 WorkflowRequests(rs, ids, mgr)) IN
         [expense |-> exp, approvals |-> st.approvals, notifications |-> st.notifications]

\* ------------------------------------------------------------ resolution
CountStatus(apps, s) == Cardinality({i \in 1..Len(apps) : apps[i].status = s})

\* mutant: the threshold has to be exceeded
PercentageMet_Strict(total, approved, thr) ==
    total > 0 /\ approved * 100 > thr * total

\* (approved_count / total_approvers) * 100 >= rule.percentage_threshold, total_approvers > 0
\* (the float quotient and the exact comparison agree for every total up to 12)
PercentageMet(total, approved, thr) ==
    total > 0 /\ approved * 100 >= thr * total

\* expense.approvals.filter(approver=rule.specific_approver, status='approved').exists()
SpecificMet(apps, u) ==
    \E i \in 1..Len(apps) : apps[i].approver = u /\ apps[i].status = "approved"

\* the branch of check_expense_status for one rule: does it approve the expense?
RuleSatisfied(rule, apps) ==
    CASE rule.rule_type = "percentage" ->
            PercentageMet(Len(apps), CountStatus(apps, "approved"), rule.percentage_threshold)
      [] rule.rule_type = "specific" -> SpecificMet(apps, rule.specific_approver)
      [] OTHER -> FALSE

\* mutant: only the first applicable rule is evaluated
AnySatisfied_FirstOnly(rs, ids, apps) ==
    ids # << >> /\ RuleSatisfied(rs[ids[1]], apps)

\* the for loop over the applicable rules returns at the first rule that approves
AnySatisfied(rs, ids, apps) == \E k \in 1..Len(ids) : RuleSatisfied(rs[ids[k]], apps)

\* expense.approvals.filter(status='rejected').exists()
AnyRejected(apps) == \E i \in 1..Len(apps) : apps[i].status = "rejected"

\* mutant: the rejected-record check runs before the rules (any rejection vetoes)
check_expense_status_RejectFirst(exp, apps, rs, now) ==
    IF AnyRejected(apps)
    THEN [exp EXCEPT !.status = "rejected"]
    ELSE IF AnySatisfied(rs, get_applicable_rules(rs, exp), apps)
    THEN [exp EXCEPT !.status = "approved", !.approved_at = now]
    ELSE exp

\* mutant: the rejected-record check is left out
check_expense_status_NoReject(exp, apps, rs, now) ==
    IF AnySatisfied(rs, get_applicable_rules(rs, exp), apps)
    THEN [exp EXCEPT !.status = "approved", !.approved_at = now]
    ELSE exp

\* ApprovalWorkflowService.check_expense_status
check_expense_status(exp, apps, rs, now) ==
    IF AnySatisfied(rs, get_applicable_rules(rs, exp), apps)
    THEN [exp EXCEPT !.status = "approved", !.approved_at = now]
    ELSE IF AnyRejected(apps)
    THEN [exp EXCEPT !.status = "rejected"]
    ELSE exp

\* mutant: the comments of the request are not stored
process_approval_KeepComments(exp, apps, notifs, rs, r, status, comments, now) ==
    LET apps2 == [apps EXCEPT ![r].status = status, ![r].approved_at = now] IN
    [approvals |-> apps2,
     notifications |-> NotificationCreate(notifs, Owner, "expense_" \o status),
     expense |-> check_expense_status(exp, apps2, rs, now)]

\* ApprovalWorkflowService.process_approval on record r
process_approval(exp, apps, notifs, rs, r, status, comments, now) ==
    LET apps2 == [apps EXCEPT ![r].status = status, ![r].comments = comments,
                              ![r].approved_at = now] IN
    [approvals |-> apps2,
     notifications |-> NotificationCreate(notifs, Owner, "expense_" \o status),
     expense |-> check_expense_status(exp, apps2, rs, now)]

\* ----------------------------------------------------------------- state
NoExpense ==
    [exists |-> FALSE, status |-> "draft", amount |-> 0, currency |-> CompanyCurrency,
     amount_in_company_currency |-> 0, exchange_rate |-> NoRate,
     submitted_at |-> NoTime, approved_at |-> NoTime]

\* an expense entered in the company currency, as both create paths store it:
\* amount_in_company_currency = amount, exchange_rate = 1
SameCurrencyExpense(amt) ==
    [NoExpense EXCEPT !.exists = TRUE, !.amount = amt, !.amount_in_company_currency = amt,
                      !.exchange_rate = 1]

Amounts == {10}

\* the two request workers of SpecConc
Procs == {1, 2}
NoRequest == [record |-> 0, status |-> "approved", now |-> NoTime, rec |-> NewApproval(NoUser, NoStep), idx |-> 0]

\* rule sets of the interleaved specification
ConcRuleLists ==
    {<<Rule("percentage", thr, NoUser, FALSE, <<"a1", "a2">>, TRUE, NoAmount, NoAmount)>> :
        thr \in Thresholds}
    \cup {<<Rule("specific", 0, "a1", TRUE, <<"a1", "a2">>, TRUE, NoAmount, NoAmount)>>}

InitWith(rls, mgrs) ==
    /\ rules \in rls
    /\ manager \in mgrs
    /\ expense = NoExpense
    /\ approvals = << >>
    /\ notifications = NoNotifications
    /\ clock = 0
    /\ response = "ok"
    /\ pc = [p \in Procs |-> "idle"]
    /\ req = [p \in Procs |-> NoRequest]
    /\ lexp = [p \in Procs |-> NoExpense]
    /\ ltotal = [p \in Procs |-> 0]
    /\ hist = << >>

Init == InitWith(RuleLists, Managers)
InitConc == InitWith(ConcRuleLists, {NoUser, "a3"})

\* every request is served at a new instant
Tick == clock < MaxClock /\ clock' = clock + 1
TimezoneNow == clock + 1

\* ------------------------------------------------------ request handlers
\* ExpenseViewSet.perform_create: ExpenseCreateSerializer.create, then the chain, then the notification
ApiCreate ==
    /\ Tick
    /\ ~expense.exists
    /\ \E amt \in Amounts :
        LET e0 == SameCurrencyExpense(amt)
            w  == create_approval_workflow(e0, approvals, notifications, rules, manager, TimezoneNow)
        IN /\ expense' = w.expense
           /\ approvals' = w.approvals
           /\ notifications' = NotificationCreate(w.notifications, Owner, "expense_submitted")
    /\ response' = "ok"
    /\ UNCHANGED <<rules, manager, concvars>>

\* frontend_views.submit_expense: the expense is stored as a draft, no chain is built
FrontendCreate ==
    /\ Tick
    /\ ~expense.exists
    /\ \E amt \in Amounts :
        expense' = SameCurrencyExpense(amt)
    /\ response' = "ok"
    /\ UNCHANGED <<rules, manager, approvals, notifications, concvars>>

\* mutant: submit does not look at the status of the expense
Submit_Unguarded ==
    /\ Tick
    /\ expense.exists
    /\ LET e1 == [expense EXCEPT !.status = "pending", !.submitted_at = TimezoneNow]
           w  == create_approval_workflow(e1, approvals, notifications, rules, manager, TimezoneNow)
       IN /\ expense' = w.expense
          /\ approvals' = w.approvals
          /\ notifications' = w.notifications
          /\ response' = "ok"
    /\ UNCHANGED <<rules, manager, concvars>>

\* ExpenseViewSet.submit
Submit ==
    /\ Tick
    /\ expense.exists
    /\ IF expense.status # "draft"
       THEN /\ response' = "error"
            /\ UNCHANGED <<expense, approvals, notifications>>
       ELSE LET e1 == [expense EXCEPT !.status = "pending", !.submitted_at = TimezoneNow]
                w  == create_approval_workflow(e1, approvals, notifications, rules, manager, TimezoneNow)
            IN /\ expense' = w.expense
               /\ approvals' = w.approvals
               /\ notifications' = w.notifications
               /\ response' = "ok"
    /\ UNCHANGED <<rules, manager, concvars>>

\* ExpenseViewSet.cancel
Cancel ==
    /\ Tick
    /\ expense.exists
    /\ IF expense.status \notin {"draft", "pending"}
       THEN /\ response' = "error"
            /\ UNCHANGED expense
       ELSE /\ expense' = [expense EXCEPT !.status = "cancelled"]
            /\ response' = "ok"
    /\ UNCHANGED <<rules, manager, approvals, notifications, concvars>>

\* the effect of a decision request that reaches process_approval
Decide(r, status) ==
    LET d == process_approval(expense, approvals, notifications, rules, r, status,
                              RequestComments, TimezoneNow) IN
    /\ expense' = d.expense
    /\ approvals' = d.approvals
    /\ notifications' = d.notifications
    /\ response' = "ok"

\* ExpenseApprovalViewSet.approve
ApiApprove(r, status) ==
    /\ Tick
    /\ r \in 1..Len(approvals)
    /\ IF approvals[r].status # "pending"
       THEN /\ response' = "error"
            /\ UNCHANGED <<expense, approvals, notifications>>
       ELSE Decide(r, status)
    /\ UNCHANGED <<rules, manager, concvars>>

\* frontend_views.approve_expense with action 'approve' or 'reject'
FrontendApprove(r, status) ==
    /\ Tick
    /\ r \in 1..Len(approvals)
    /\ Decide(r, status)
    /\ UNCHANGED <<rules, manager, concvars>>

\* ExpenseViewSet.pending_approvals for user u (of role manager or admin; anybody else
\* gets 403): Expense.objects.filter(approvals__approver=u, approvals__status='pending',
\* status='pending').distinct()
pending_approvals(exp, apps, u) ==
    IF /\ exp.exists
       /\ exp.status = "pending"
       /\ \E i \in 1..Len(apps) : apps[i].approver = u /\ apps[i].status = "pending"
    THEN {exp} ELSE {}

Outcomes == {"approved", "rejected"}

Next ==
    \/ ApiCreate
    \/ FrontendCreate
    \/ Submit
    \/ Cancel
    \/ \E r \in 1..Len(approvals), s \in Outcomes : ApiApprove(r, s)
    \/ \E r \in 1..Len(approvals), s \in Outcomes : FrontendApprove(r, s)

Spec == Init /\ [][Next]_vars

\* percentage rules over chains of two to four records (the manager, when there is one,
\* and the steps of the rule)
PctThresholds == {50, 75, 100}
PctRuleLists ==
    {<<Rule("percentage", thr, NoUser, TRUE, st, TRUE, NoAmount, NoAmount)>> :
        thr \in PctThresholds, st \in {<<"a1", "a2">>, <<"a1", "a2", "a3">>}}
InitPct == InitWith(PctRuleLists, {NoUser, "a4"})
SpecPct == InitPct /\ [][Next]_vars

\* percentage rules whose threshold may be 0 (percentage_threshold is an IntegerField
\* without validators)
ZeroThresholds == {0, 50}
ZeroRuleLists ==
    {<<Rule("percentage", thr, NoUser, mgr, st, TRUE, NoAmount, NoAmount)>> :
        thr \in ZeroThresholds, mgr \in BOOLEAN, st \in {<<"a1">>, <<"a1", "a2">>}}
InitZero == InitWith(ZeroRuleLists, {NoUser, "a3"})
SpecZero == InitZero /\ [][Next]_vars

\* rules with amount bounds around the amount of the expense, active or not
AmountBounds == {NoAmount, 0, 5, 20}
BoundedRules ==
    {Rule("percentage", 50, NoUser, FALSE, <<"a1">>, act, lo, hi) :
        act \in BOOLEAN, lo \in AmountBounds, hi \in AmountBounds}
BoundedRuleLists ==
    {<<r>> : r \in BoundedRules}
    \cup {<<r1, r2>> : r1 \in BoundedRules,
                       r2 \in {Rule("specific", 0, "a2", FALSE, <<"a2">>, TRUE, NoAmount, hi) :
                                  hi \in {0, 5}}}
InitRules == InitWith(BoundedRuleLists, {NoUser})
SpecRules == InitRules /\ [][Next]_vars

\* ------------------------------------------- interleaved decision requests
Event(e, p, r, status, seen, prev) ==
    [ev |-> e, proc |-> p, record |-> r, status |-> status, seen |-> seen, prev |-> prev]

\* the request ends
Finish(p) ==
    /\ pc' = [pc EXCEPT ![p] = "idle"]
    /\ req' = [req EXCEPT ![p] = NoRequest]
    /\ lexp' = [lexp EXCEPT ![p] = NoExpense]
    /\ ltotal' = [ltotal EXCEPT ![p] = 0]

\* the for loop of check_expense_status moves to the next rule, or to the rejected check
NextRule(p) ==
    LET ids == get_applicable_rules(rules, lexp[p]) IN
    IF req[p].idx < Len(ids)
    THEN /\ req' = [req EXCEPT ![p].idx = @ + 1]
         /\ pc' = [pc EXCEPT ![p] = "rule"]
    ELSE /\ pc' = [pc EXCEPT ![p] = "check_rejected"]
         /\ UNCHANGED req

\* the view loads the record (get_object / get_object_or_404); the API view refuses a
\* record that is not pending, the frontend view does not look at its status
PaBegin(p, r, via, status) ==
    /\ Tick
    /\ pc[p] = "idle"
    \* the workers are interchangeable: the second one is used while the first is busy
    /\ p = 1 \/ pc[1] # "idle"
    /\ r \in 1..Len(approvals)
    /\ IF via = "api" /\ approvals[r].status # "pending"
       THEN /\ response' = "error"
            /\ UNCHANGED <<pc, req, hist>>
       ELSE /\ Cardinality({i \in 1..Len(hist) : hist[i].ev = "decide"}) < MaxDecisions
            /\ pc' = [pc EXCEPT ![p] = "save"]
            /\ req' = [req EXCEPT ![p] = [record |-> r, status |-> status, now |-> TimezoneNow,
                                          rec |-> approvals[r], idx |-> 0]]
            /\ hist' = Append(hist, Event("decide", p, r, status, "", ""))
            /\ UNCHANGED response
    /\ UNCHANGED <<dbvars, lexp, ltotal>>

\* process_approval: expense_approval.save() writes the in-memory record
PaSave(p) ==
    /\ pc[p] = "save"
    /\ approvals' = [approvals EXCEPT ![req[p].record] =
                        [req[p].rec EXCEPT !.status = req[p].status,
                                           !.comments = RequestComments,
                                           !.approved_at = req[p].now]]
    /\ pc' = [pc EXCEPT ![p] = "notify"]
    /\ UNCHANGED <<rules, manager, expense, notifications, clock, response, req, lexp, ltotal, hist>>

\* process_approval: expense_approval.expense is fetched, the owner is notified and
\* check_expense_status selects the applicable rules
PaNotify(p) ==
    /\ pc[p] = "notify"
    /\ lexp' = [lexp EXCEPT ![p] = expense]
    /\ notifications' = NotificationCreate(notifications, Owner, "expense_" \o req[p].status)
    /\ IF get_applicable_rules(rules, expense) = << >>
       THEN /\ pc' = [pc EXCEPT ![p] = "check_rejected"]
            /\ UNCHANGED req
       ELSE /\ pc' = [pc EXCEPT ![p] = "rule"]
            /\ req' = [req EXCEPT ![p].idx = 1]
    /\ UNCHANGED <<rules, manager, expense, approvals, clock, response, ltotal, hist>>

\* check_expense_status, first query of a rule's branch: approvals.count() of a percentage
\* rule, the exists() of a specific rule, nothing for a hybrid rule
PaRule(p) ==
    /\ pc[p] = "rule"
    /\ LET rule == rules[get_applicable_rules(rules, lexp[p])[req[p].idx]] IN
       CASE rule.rule_type = "percentage" ->
                /\ ltotal' = [ltotal EXCEPT ![p] = Len(approvals)]
                /\ pc' = [pc EXCEPT ![p] = "rule_approved"]
                /\ UNCHANGED req
         [] rule.rule_type = "specific" ->
                /\ IF SpecificMet(approvals, rule.specific_approver)
                   THEN pc' = [pc EXCEPT ![p] = "write_approved"] /\ UNCHANGED req
                   ELSE NextRule(p)
                /\ UNCHANGED ltotal
         [] OTHER -> NextRule(p) /\ UNCHANGED ltotal
    /\ UNCHANGED <<dbvars, clock, response, lexp, hist>>

\* check_expense_status, percentage rule: approvals.filter(status='approved').count() and the test
PaRuleApproved(p) ==
    /\ pc[p] = "rule_approved"
    /\ LET rule == rules[get_applicable_rules(rules, lexp[p])[req[p].idx]] IN
       IF PercentageMet(ltotal[p], CountStatus(approvals, "approved"), rule.percentage_threshold)
       THEN pc' = [pc EXCEPT ![p] = "write_approved"] /\ UNCHANGED req
       ELSE NextRule(p)
    /\ UNCHANGED <<dbvars, clock, response, lexp, ltotal, hist>>

\* check_expense_status: approvals.filter(status='rejected').exists()
PaCheckRejected(p) ==
    /\ pc[p] = "check_rejected"
    /\ IF AnyRejected(approvals)
       THEN /\ pc' = [pc EXCEPT ![p] = "write_rejected"]
            /\ UNCHANGED <<req, lexp, ltotal, response>>
       ELSE /\ Finish(p)
            /\ response' = "ok"
    /\ UNCHANGED <<dbvars, clock, hist>>

\* check_expense_status: expense.save() of the in-memory expense, every column written
PaWrite(p) ==
    /\ pc[p] \in {"write_approved", "write_rejected"}
    /\ LET e == IF pc[p] = "write_approved"
                THEN [lexp[p] EXCEPT !.status = "approved", !.approved_at = req[p].now]
                ELSE [lexp[p] EXCEPT !.status = "rejected"]
       IN /\ expense' = e
          /\ hist' = Append(hist, Event("write", p, req[p].record, e.status,
                                        lexp[p].status, expense.status))
    /\ Finish(p)
    /\ response' = "ok"
    /\ UNCHANGED <<rules, manager, approvals, notifications, clock>>

Vias == {"api", "frontend"}

NextConc ==
    \/ ApiCreate
    \/ FrontendCreate
    \/ Submit
    \/ Cancel
    \/ \E p \in Procs, r \in 1..Len(approvals), via \in Vias, s \in Outcomes : PaBegin(p, r, via, s)
    \/ \E p \in Procs : PaSave(p)
    \/ \E p \in Procs : PaNotify(p)
    \/ \E p \in Procs : PaRule(p)
    \/ \E p \in Procs : PaRuleApproved(p)
    \/ \E p \in Procs : PaCheckRejected(p)
    \/ \E p \in Procs : PaWrite(p)

SpecConc == InitConc /\ [][NextConc]_vars

\* ------------------------------------- interleaved chain constructions
\* SpecChain: the API create and the submit action run as two interleaved requests, one
\* database statement per step; get_or_create is a SELECT, then an INSERT that the
\* unique constraint on (expense, approver) may refuse, then a second SELECT
ChainRuleLists ==
    {<< >>,
     <<Rule("percentage", 50, NoUser, TRUE, <<"a1", "a2">>, TRUE, NoAmount, NoAmount)>>,
     <<Rule("specific", 0, "a1", TRUE, <<"a1">>, TRUE, NoAmount, NoAmount),
       Rule("percentage", 100, NoUser, FALSE, <<"a1", "a2">>, TRUE, NoAmount, NoAmount)>>}
InitChain == InitWith(ChainRuleLists, Managers)

\* the get_or_create calls of the request, from its in-memory expense
CwRequests(p) == WorkflowRequests(rules, get_applicable_rules(rules, lexp[p]), manager)
CwRequest(p) == CwRequests(p)[req[p].idx]

\* mutant: the table has no unique constraint
UniqueViolation_NoConstraint(apps, u) == FALSE

\* unique_together = ['expense', 'approver']: the INSERT raises IntegrityError
UniqueViolation(apps, u) == HasRecord(apps, u)

\* the loops of create_approval_workflow move to the next get_or_create, or end
CwAdvance(p) ==
    IF req[p].idx < Len(CwRequests(p))
    THEN /\ req' = [req EXCEPT ![p].idx = @ + 1]
         /\ pc' = [pc EXCEPT ![p] = "cw_get"]
    ELSE /\ pc' = [pc EXCEPT ![p] = "cw_end"]
         /\ UNCHANGED req

\* ExpenseViewSet.perform_create: serializer.save() stores the draft
CwApiCreate(p) ==
    /\ Tick
    /\ pc[p] = "idle"
    /\ ~expense.exists
    /\ \E amt \in Amounts :
        LET e0 == SameCurrencyExpense(amt)
        IN /\ expense' = e0
           /\ lexp' = [lexp EXCEPT ![p] = e0]
    /\ req' = [req EXCEPT ![p] = [entry |-> "create", idx |-> 0, now |-> TimezoneNow]]
    /\ pc' = [pc EXCEPT ![p] = "cw_rules"]
    /\ UNCHANGED <<rules, manager, approvals, notifications, response, ltotal, hist>>

\* ExpenseViewSet.submit: get_object() and the test of the status
CwSubmitLoad(p) ==
    /\ Tick
    /\ pc[p] = "idle"
    /\ expense.exists
    /\ IF expense.status # "draft"
       THEN /\ response' = "error"
            /\ UNCHANGED <<pc, req, lexp>>
       ELSE /\ lexp' = [lexp EXCEPT ![p] = expense]
            /\ req' = [req EXCEPT ![p] = [entry |-> "submit", idx |-> 0, now |-> TimezoneNow]]
            /\ pc' = [pc EXCEPT ![p] = "sub_save"]
            /\ UNCHANGED response
    /\ UNCHANGED <<dbvars, ltotal, hist>>

\* ExpenseViewSet.submit: status = 'pending', submitted_at = now, expense.save()
CwSubmitSave(p) ==
    /\ pc[p] = "sub_save"
    /\ LET e1 == [lexp[p] EXCEPT !.status = "pending", !.submitted_at = req[p].now]
       IN /\ expense' = e1
          /\ lexp' = [lexp EXCEPT ![p] = e1]
    /\ pc' = [pc EXCEPT ![p] = "cw_rules"]
    /\ UNCHANGED <<rules, manager, approvals, notifications, clock, response, req, ltotal, hist>>

\* create_approval_workflow: get_applicable_rules, and the auto-approve branch
CwRules(p) ==
    /\ pc[p] = "cw_rules"
    /\ IF get_applicable_rules(rules, lexp[p]) = << >>
       THEN LET e2 == [lexp[p] EXCEPT !.status = "approved", !.approved_at = req[p].now]
            IN /\ expense' = e2
               /\ lexp' = [lexp EXCEPT ![p] = e2]
               /\ pc' = [pc EXCEPT ![p] = "cw_end"]
               /\ UNCHANGED req
       ELSE /\ IF CwRequests(p) = << >>
               THEN pc' = [pc EXCEPT ![p] = "cw_end"] /\ UNCHANGED req
               ELSE /\ pc' = [pc EXCEPT ![p] = "cw_get"]
                    /\ req' = [req EXCEPT ![p].idx = 1]
            /\ UNCHANGED <<expense, lexp>>
    /\ UNCHANGED <<rules, manager, approvals, notifications, clock, response, ltotal, hist>>

\* get_or_create: self.get(expense=..., approver=...)
CwGet(p) ==
    /\ pc[p] = "cw_get"
    /\ IF HasRecord(approvals, CwRequest(p).approver)
       THEN CwAdvance(p)
       ELSE pc' = [pc EXCEPT ![p] = "cw_insert"] /\ UNCHANGED req
    /\ UNCHANGED <<dbvars, clock, response, lexp, ltotal, hist>>

\* get_or_create: self.create(...) after DoesNotExist
CwInsert(p) ==
    /\ pc[p] = "cw_insert"
    /\ IF UniqueViolation(approvals, CwRequest(p).approver)
       THEN /\ pc' = [pc EXCEPT ![p] = "cw_reget"]
            /\ hist' = Append(hist, Event("lost_race", p, req[p].idx, "", "", ""))
            /\ UNCHANGED approvals
       ELSE /\ approvals' = Append(approvals, NewApproval(CwRequest(p).approver, CwRequest(p).step))
            /\ pc' = [pc EXCEPT ![p] = "cw_notify"]
            /\ UNCHANGED hist
    /\ UNCHANGED <<rules, manager, expense, notifications, clock, response, req, lexp, ltotal>>

\* get_or_create: self.get(...) after IntegrityError; the error is raised again when
\* the row is still not found
CwReget(p) ==
    /\ pc[p] = "cw_reget"
    /\ IF HasRecord(approvals, CwRequest(p).approver)
       THEN CwAdvance(p) /\ UNCHANGED <<response, lexp, ltotal>>
       ELSE Finish(p) /\ response' = "integrity_error"
    /\ UNCHANGED <<dbvars, clock, hist>>

\* if created: Notification.objects.create(user=approver, notification_type='approval_request')
CwNotify(p) ==
    /\ pc[p] = "cw_notify"
    /\ notifications' = NotificationCreate(notifications, CwRequest(p).approver, "approval_request")
    /\ CwAdvance(p)
    /\ UNCHANGED <<rules, manager, expense, approvals, clock, response, lexp, ltotal, hist>>

\* the view after create_approval_workflow: perform_create notifies the owner, submit answers
CwEnd(p) ==
    /\ pc[p] = "cw_end"
    /\ notifications' = IF req[p].entry = "create"
                        THEN NotificationCreate(notifications, Owner, "expense_submitted")
                        ELSE notifications
    /\ hist' = Append(hist, Event("built", p, 0, req[p].entry, "", ""))
    /\ Finish(p)
    /\ response' = "ok"
    /\ UNCHANGED <<rules, manager, expense, approvals, clock>>

NextChain ==
    \/ FrontendCreate
    \/ \E p \in Procs : CwApiCreate(p)
    \/ \E p \in Procs : CwSubmitLoad(p)
    \/ \E p \in Procs : CwSubmitSave(p)
    \/ \E p \in Procs : CwRules(p)
    \/ \E p \in Procs : CwGet(p)
    \/ \E p \in Procs : CwInsert(p)
    \/ \E p \in Procs : CwReget(p)
    \/ \E p \in Procs : CwNotify(p)
    \/ \E p \in Procs : CwEnd(p)

SpecChain == InitChain /\ [][NextChain]_vars

\* ------------------------------------------------- currency normalization
\* SpecNorm: the expense is entered in any currency; the API create normalizes before
\* it stores, the frontend form stores the draft first and normalizes it in a second
\* statement; the answer of the external rate source is an input of the request

\* what https://api.exchangerate-api.com/v4/latest/<from> answers: no answer, a
\* non-success status, or a rate table with or without the company currency
SourceAnswers ==
    {[kind |-> "unreachable", rates |-> << >>],
     [kind |-> "http_error", rates |-> << >>],
     [kind |-> "ok", rates |-> [c \in {"USD", "GBP"} |-> IF c = "USD" THEN 2 ELSE 3]],
     [kind |-> "ok", rates |-> [c \in {"GBP"} |-> 3]]}

\* mutant: a missing target currency is reported as a failure of the source
convert_currency_Confused(amount, from_currency, to_currency, src) ==
    IF from_currency = to_currency
    THEN [outcome |-> "ok", converted_amount |-> amount, exchange_rate |-> 1, requests |-> 0]
    ELSE IF src.kind = "ok" /\ to_currency \in DOMAIN src.rates
    THEN [outcome |-> "ok", converted_amount |-> amount * src.rates[to_currency],
          exchange_rate |-> src.rates[to_currency], requests |-> 1]
    ELSE [outcome |-> "RequestException", converted_amount |-> NoAmount,
          exchange_rate |-> NoRate, requests |-> 1]

\* mutant: the source is asked also when the two currencies are the same
convert_currency_AlwaysAsk(amount, from_currency, to_currency, src) ==
    IF src.kind # "ok"
    THEN [outcome |-> "RequestException", converted_amount |-> NoAmount,
          exchange_rate |-> NoRate, requests |-> 1]
    ELSE IF from_currency = to_currency
    THEN [outcome |-> "ok", converted_amount |-> amount, exchange_rate |-> 1, requests |-> 1]
    ELSE IF to_currency \notin DOMAIN src.rates
    THEN [outcome |-> "ValueError", converted_amount |-> NoAmount,
          exchange_rate |-> NoRate, requests |-> 1]
    ELSE [outcome |-> "ok", converted_amount |-> amount * src.rates[to_currency],
          exchange_rate |-> src.rates[to_currency], requests |-> 1]

\* CurrencyService.convert_currency; outcome is "ok" or the exception it raises,
\* requests the number of calls to the rate source
convert_currency(amount, from_currency, to_currency, src) ==
    IF from_currency = to_currency
    THEN [outcome |-> "ok", converted_amount |-> amount, exchange_rate |-> 1, requests |-> 0]
    ELSE IF src.kind # "ok"
    THEN [outcome |-> "RequestException", converted_amount |-> NoAmount,
          exchange_rate |-> NoRate, requests |-> 1]
    ELSE IF to_currency \notin DOMAIN src.rates
    THEN [outcome |-> "ValueError", converted_amount |-> NoAmount,
          exchange_rate |-> NoRate, requests |-> 1]
    ELSE [outcome |-> "ok", converted_amount |-> amount * src.rates[to_currency],
          exchange_rate |-> src.rates[to_currency], requests |-> 1]

\* the normalization both create paths perform: convert_currency only when the
\* currency of the expense differs from the currency of the company
Normalize(amount, currency, src) ==
    IF currency # CompanyCurrency
    THEN convert_currency(amount, currency, CompanyCurrency, src)
    ELSE [outcome |-> "ok", converted_amount |-> amount, exchange_rate |-> 1, requests |-> 0]

\* the conversion of a request, in the log
ConvertEvent(p, currency, c) == Event("convert", p, c.requests, c.outcome, currency, "")

\* applies_to_expense compares the amount with a bound that is set and not 0
ReadsAmount(rule) ==
    /\ rule.is_active
    /\ \/ rule.min_amount # NoAmount /\ rule.min_amount # 0
       \/ rule.max_amount # NoAmount /\ rule.max_amount # 0

\* get_applicable_rules raises TypeError: a bound is compared with an amount that is NULL
AmountTypeError(rs, exp) ==
    /\ exp.amount_in_company_currency = NoAmount
    /\ \E i \in 1..Len(rs) : ReadsAmount(rs[i])

\* the worker that serves the frontend form
FeWorker == 1

NormRuleLists ==
    {<<Rule("percentage", 50, NoUser, FALSE, <<"a1">>, TRUE, lo, hi)>> :
        lo \in {NoAmount, 5}, hi \in {NoAmount, 15}}

InitNorm == InitWith(NormRuleLists, {NoUser})

\* ExpenseViewSet.perform_create with ExpenseCreateSerializer.create: the amount is
\* normalized, then the expense is stored, the chain built and the owner notified
NormApiCreate ==
    /\ Tick
    /\ ~expense.exists
    /\ \E amt \in Amounts, cur \in Currencies, src \in SourceAnswers :
        LET c  == Normalize(amt, cur, src)
            e0 == [NoExpense EXCEPT !.exists = TRUE, !.amount = amt, !.currency = cur,
                                    !.amount_in_company_currency = c.converted_amount,
                                    !.exchange_rate = c.exchange_rate]
            w  == create_approval_workflow(e0, approvals, notifications, rules, manager, TimezoneNow)
        IN /\ hist' = Append(hist, ConvertEvent(0, cur, c))
           /\ IF c.outcome # "ok"
              THEN /\ response' = c.outcome
                   /\ UNCHANGED <<expense, approvals, notifications>>
              ELSE /\ expense' = w.expense
                   /\ approvals' = w.approvals
                   /\ notifications' = NotificationCreate(w.notifications, Owner, "expense_submitted")
                   /\ response' = "ok"
    /\ UNCHANGED <<rules, manager, pc, req, lexp, ltotal>>

\* frontend_views.submit_expense: Expense.objects.create(..., status='draft'), without
\* the normalized amount and the rate
FeInsert(p) ==
    /\ Tick
    /\ ~expense.exists
    /\ pc[p] = "idle"
    /\ \E amt \in Amounts, cur \in Currencies :
        LET e0 == [NoExpense EXCEPT !.exists = TRUE, !.amount = amt, !.currency = cur,
                                    !.amount_in_company_currency = NoAmount]
        IN /\ expense' = e0
           /\ lexp' = [lexp EXCEPT ![p] = e0]
    /\ pc' = [pc EXCEPT ![p] = "fe_normalize"]
    /\ UNCHANGED <<rules, manager, approvals, notifications, response, req, ltotal, hist>>

\* frontend_views.submit_expense: the conversion and expense.save(); an exception is
\* caught, reported as a message, and leaves the draft as it was stored
FeNormalize(p) ==
    /\ pc[p] = "fe_normalize"
    /\ \E src \in SourceAnswers :
        LET c == Normalize(lexp[p].amount, lexp[p].currency, src)
        IN /\ hist' = Append(hist, ConvertEvent(p, lexp[p].currency, c))
           /\ IF c.outcome # "ok"
              THEN /\ response' = "error"
                   /\ UNCHANGED expense
              ELSE /\ expense' = [lexp[p] EXCEPT !.amount_in_company_currency = c.converted_amount,
                                                  !.exchange_rate = c.exchange_rate]
                   /\ response' = "ok"
    /\ Finish(p)
    /\ UNCHANGED <<rules, manager, approvals, notifications, clock>>

\* ExpenseViewSet.submit on an expense whose normalized amount may be NULL
NormSubmit ==
    /\ Tick
    /\ expense.exists
    /\ IF expense.status # "draft"
       THEN /\ response' = "error"
            /\ UNCHANGED <<expense, approvals, notifications>>
       ELSE LET e1 == [expense EXCEPT !.status = "pending", !.submitted_at = TimezoneNow]
                w  == create_approval_workflow(e1, approvals, notifications, rules, manager, TimezoneNow)
            IN IF AmountTypeError(rules, e1)
               THEN /\ expense' = e1
                    /\ response' = "TypeError"
                    /\ UNCHANGED <<approvals, notifications>>
               ELSE /\ expense' = w.expense
                    /\ approvals' = w.approvals
                    /\ notifications' = w.notifications
                    /\ response' = "ok"
    /\ UNCHANGED <<rules, manager, concvars>>

NextNorm ==
    \/ NormApiCreate
    \/ FeInsert(FeWorker)
    \/ FeNormalize(FeWorker)
    \/ NormSubmit
    \/ Cancel

SpecNorm == InitNorm /\ [][NextNorm]_vars

\* ------------------------------------------------------ failing statements
\* SpecFail: a database statement of a request may raise (the rows written before it
\* stay written: every statement is committed on its own, no view opens a
\* transaction); the statement that fails is an input of the request

\* where process_approval raises: nowhere, at expense_approval.save(), at
\* Notification.objects.create, or inside check_expense_status
DecisionFaults == {"none", "save", "notify", "resolve"}

\* how many approval_request notifications of a chain construction are created
\* before Notification.objects.create raises (3: none raises)
NotificationBudgets == 0..3

FaultEvent(r, status, fault) == Event("fault", 0, r, status, fault, "")

\* process_approval up to the statement that raises
process_approval_failing(exp, apps, notifs, rs, r, status, comments, now, fault) ==
    LET ok == process_approval(exp, apps, notifs, rs, r, status, comments, now) IN
    CASE fault = "save" -> [approvals |-> apps, notifications |-> notifs, expense |-> exp]
      [] fault = "notify" -> [approvals |-> ok.approvals, notifications |-> notifs, expense |-> exp]
      [] fault = "resolve" ->
            [approvals |-> ok.approvals, notifications |-> ok.notifications, expense |-> exp]
      [] OTHER -> ok

\* the loops of create_approval_workflow when Notification.objects.create raises after
\* n notifications: the record of the failing notification is already created
RECURSIVE EnsureRecordsFailing(_, _, _)
EnsureRecordsFailing(st, rqs, n) ==
    IF rqs = << >>
    THEN [approvals |-> st.approvals, notifications |-> st.notifications, failed |-> FALSE]
    ELSE LET g == get_or_create(st.approvals, Head(rqs).approver, Head(rqs).step) IN
         IF ~g.created THEN EnsureRecordsFailing(st, Tail(rqs), n)
         ELSE IF n = 0
         THEN [approvals |-> g.approvals, notifications |-> st.notifications, failed |-> TRUE]
         ELSE EnsureRecordsFailing(EnsureRecord(st, Head(rqs)), Tail(rqs), n - 1)

\* ExpenseViewSet.submit when a notification of the chain may fail
FaultySubmit(n) ==
    /\ Tick
    /\ expense.exists
    /\ IF expense.status # "draft"
       THEN /\ response' = "error"
            /\ UNCHANGED <<expense, approvals, notifications, hist>>
       ELSE LET e1  == [expense EXCEPT !.status = "pending", !.submitted_at = TimezoneNow]
                ids == get_applicable_rules(rules, e1)
                w   == create_approval_workflow(e1, approvals, notifications, rules, manager, TimezoneNow)
                f   == EnsureRecordsFailing([approvals |-> approvals, notifications |-> notifications],
                                            WorkflowRequests(rules, ids, manager), n)
            IN IF ids # << >> /\ f.failed
               THEN /\ expense' = e1
                    /\ approvals' = f.approvals
                    /\ notifications' = f.notifications
                    /\ response' = "submit_failed"
                    /\ hist' = Append(hist, FaultEvent(0, "submit", "notify"))
               ELSE /\ expense' = w.expense
                    /\ approvals' = w.approvals
                    /\ notifications' = w.notifications
                    /\ response' = "ok"
                    /\ UNCHANGED hist
    /\ UNCHANGED <<rules, manager, pc, req, lexp, ltotal>>

\* ExpenseApprovalViewSet.approve (via "api") and frontend_views.approve_expense (via
\* "frontend", which catches the exception and reports it) when a statement may fail
FaultyDecide(r, status, via, fault) ==
    /\ Tick
    /\ r \in 1..Len(approvals)
    /\ IF via = "api" /\ approvals[r].status # "pending"
       THEN /\ response' = "error"
            /\ UNCHANGED <<expense, approvals, notifications, hist>>
       ELSE LET d == process_approval_failing(expense, approvals, notifications, rules, r,
                                              status, RequestComments, TimezoneNow, fault)
            IN /\ expense' = d.expense
               /\ approvals' = d.approvals
               /\ notifications' = d.notifications
               /\ response' = IF fault = "none" THEN "ok" ELSE "decide_failed"
               /\ hist' = IF fault = "none" THEN hist
                          ELSE Append(hist, FaultEvent(r, status, fault))
    /\ UNCHANGED <<rules, manager, pc, req, lexp, ltotal>>

NextFail ==
    \/ ApiCreate
    \/ FrontendCreate
    \/ \E n \in NotificationBudgets : FaultySubmit(n)
    \/ Cancel
    \/ \E r \in 1..Len(approvals), s \in Outcomes, via \in Vias, f \in DecisionFaults :
          FaultyDecide(r, s, via, f)

SpecFail == InitConc /\ [][NextFail]_vars

\* ------------------------------------------------- rule administration
\* SpecAdmin: the company admin creates and deletes approval rules through
\* ApprovalRuleViewSet while an expense is in flight

\* the rules a POST to approval-rules stores: ApprovalRuleSerializer requires neither
\* percentage_threshold nor specific_approver_id, whatever the rule_type, and a rule
\* created through the API has no steps
RuleInputs ==
    {Rule(t, thr, sp, TRUE, << >>, TRUE, NoAmount, NoAmount) :
        t \in {"percentage", "specific"}, thr \in {NoThreshold, 50}, sp \in {NoUser, "a3"}}

\* the row of a rule that was deleted (the position of a rule is its id)
DeletedRule == Rule("deleted", NoThreshold, NoUser, FALSE, << >>, FALSE, NoAmount, NoAmount)

AdminRuleLists ==
    {<< >>,
     <<Rule("percentage", 100, NoUser, TRUE, <<"a1", "a2">>, TRUE, NoAmount, NoAmount)>>}
InitAdmin == InitWith(AdminRuleLists, {NoUser, "a3"})

\* ApprovalRuleViewSet.create (perform_create: serializer.save(company=...))
RuleCreate(rule) ==
    /\ Tick
    /\ Len(rules) < MaxRules
    /\ rules' = Append(rules, rule)
    /\ response' = "ok"
    /\ UNCHANGED <<manager, expense, approvals, notifications, concvars>>

\* ApprovalRuleViewSet.destroy: the steps of the rule go with it (ApprovalStep.rule is
\* on_delete=CASCADE), and with each step the approval records that reference it
\* (ExpenseApproval.step is on_delete=CASCADE)
RuleDestroy(i) ==
    /\ Tick
    /\ i \in 1..Len(rules)
    /\ rules[i] # DeletedRule
    /\ rules' = [rules EXCEPT ![i] = DeletedRule]
    /\ approvals' = SelectSeq(approvals, LAMBDA a : a.step.rule # i)
    /\ response' = "ok"
    /\ UNCHANGED <<manager, expense, notifications, concvars>>

\* check_expense_status raises TypeError: it reaches a percentage rule whose threshold
\* is NULL (approval_percentage >= None) before any rule has approved the expense
ThresholdTypeError(rs, ids, apps) ==
    \E k \in 1..Len(ids) :
        /\ rs[ids[k]].rule_type = "percentage"
        /\ rs[ids[k]].percentage_threshold = NoThreshold
        /\ Len(apps) > 0
        /\ \A j \in 1..(k - 1) :
              /\ rs[ids[j]].percentage_threshold # NoThreshold \/ rs[ids[j]].rule_type # "percentage"
              /\ ~RuleSatisfied(rs[ids[j]], apps)

\* a decision request under the rules as they are stored
AdminDecide(r, status, via) ==
    /\ r \in 1..Len(approvals)
    /\ LET apps2 == [approvals EXCEPT ![r].status = status] IN
       FaultyDecide(r, status, via,
                    IF ThresholdTypeError(rules, get_applicable_rules(rules, expense), apps2)
                    THEN "resolve" ELSE "none")

NextAdmin ==
    \/ \E rule \in RuleInputs : RuleCreate(rule)
    \/ \E i \in 1..Len(rules) : RuleDestroy(i)
    \/ ApiCreate
    \/ FrontendCreate
    \/ Submit
    \/ Cancel
    \/ \E r \in 1..Len(approvals), s \in Outcomes, via \in Vias : AdminDecide(r, s, via)

SpecAdmin == InitAdmin /\ [][NextAdmin]_vars

\* ------------------------------------------------- REST router requests
\* SpecApi: the requests that the router serves for ExpenseViewSet and
\* ExpenseApprovalViewSet (both ModelViewSets: update and partial_update included) and
\* the frontend decision view, each with the user who sends it
Admin == "admin"
ExpenseRequesters == {Owner, Admin, "a1", "a3"}
ApprovalRequesters == Approvers \cup {Admin}

\* the last request that was served: its kind, its user, the record and the status it names
Request(kind, u, r, status) == Event(kind, 0, r, status, u, TimezoneNow)

\* ExpenseViewSet.get_queryset: an admin sees the expenses of the company, a manager
\* their own and those of their team, everybody else their own
ExpenseVisible(u) ==
    expense.exists /\ (u = Admin \/ u = Owner \/ (manager # NoUser /\ u = manager))

\* ExpenseApprovalViewSet.get_queryset: an admin sees the records of the company,
\* everybody else the records they are the approver of
ApprovalVisible(u, r) == u = Admin \/ approvals[r].approver = u

\* PATCH expenses/<id>/ with a status: ExpenseSerializer leaves `status` writable
\* (it is not among read_only_fields), ModelSerializer.update stores it
ExpensePartialUpdate(u, st) ==
    /\ Tick
    /\ expense.exists
    /\ IF ~ExpenseVisible(u)
       THEN /\ response' = "not_found"
            /\ UNCHANGED expense
       ELSE /\ expense' = [expense EXCEPT !.status = st]
            /\ response' = "ok"
    /\ hist' = <<Request("expense_partial_update", u, 0, st)>>
    /\ UNCHANGED <<rules, manager, approvals, notifications, pc, req, lexp, ltotal>>

UpdateAmounts == {10, 20}

\* PUT expenses/<id>/: amount and status are stored as sent, amount_in_company_currency
\* and exchange_rate are read-only and keep their values
ExpenseUpdate(u, amt, st) ==
    /\ Tick
    /\ expense.exists
    /\ IF ~ExpenseVisible(u)
       THEN /\ response' = "not_found"
            /\ UNCHANGED expense
       ELSE /\ expense' = [expense EXCEPT !.amount = amt, !.status = st]
            /\ response' = "ok"
    /\ hist' = <<Request("expense_update", u, 0, st)>>
    /\ UNCHANGED <<rules, manager, approvals, notifications, pc, req, lexp, ltotal>>

\* POST approvals/<id>/approve/ by user u: get_object() over get_queryset(), the pending
\* check, then process_approval; the approver of the record is not compared with u
ApprovalApprove(u, r, status) ==
    /\ Tick
    /\ r \in 1..Len(approvals)
    /\ IF ~ApprovalVisible(u, r)
       THEN /\ response' = "not_found"
            /\ UNCHANGED <<expense, approvals, notifications>>
       ELSE IF approvals[r].status # "pending"
       THEN /\ response' = "error"
            /\ UNCHANGED <<expense, approvals, notifications>>
       ELSE Decide(r, status)
    /\ hist' = <<Request("approve", u, r, status)>>
    /\ UNCHANGED <<rules, manager, pc, req, lexp, ltotal>>

\* PATCH approvals/<id>/ with a status: ExpenseApprovalSerializer leaves `status`
\* writable, ModelSerializer.update stores it and nothing else runs
ApprovalPartialUpdate(u, r, status) ==
    /\ Tick
    /\ r \in 1..Len(approvals)
    /\ IF ~ApprovalVisible(u, r)
       THEN /\ response' = "not_found"
            /\ UNCHANGED approvals
       ELSE /\ approvals' = [approvals EXCEPT ![r].status = status]
            /\ response' = "ok"
    /\ hist' = <<Request("approval_partial_update", u, r, status)>>
    /\ UNCHANGED <<rules, manager, expense, notifications, pc, req, lexp, ltotal>>

\* frontend_views.approve_expense by user u:
\* get_object_or_404(ExpenseApproval, id=approval_id, approver=request.user)
FrontendApproveBy(u, r, status) ==
    /\ Tick
    /\ r \in 1..Len(approvals)
    /\ IF approvals[r].approver # u
       THEN /\ response' = "not_found"
            /\ UNCHANGED <<expense, approvals, notifications>>
       ELSE Decide(r, status)
    /\ hist' = <<Request("frontend_approve", u, r, status)>>
    /\ UNCHANGED <<rules, manager, pc, req, lexp, ltotal>>

NextApi ==
    \/ ApiCreate
    \/ FrontendCreate
    \/ Submit
    \/ Cancel
    \/ \E u \in ExpenseRequesters, st \in STATUS_CHOICES : ExpensePartialUpdate(u, st)
    \/ \E u \in ExpenseRequesters, amt \in UpdateAmounts, st \in STATUS_CHOICES :
          ExpenseUpdate(u, amt, st)
    \/ \E u \in ApprovalRequesters, r \in 1..Len(approvals), s \in Outcomes :
          ApprovalApprove(u, r, s)
    \/ \E u \in ApprovalRequesters, r \in 1..Len(approvals), s \in APPROVAL_STATUS_CHOICES :
          ApprovalPartialUpdate(u, r, s)
    \/ \E u \in ApprovalRequesters, r \in 1..Len(approvals), s \in Outcomes :
          FrontendApproveBy(u, r, s)

SpecApi == InitConc /\ [][NextApi]_vars

\* ------------------------------------------------------------------ claims
ApprovalRequests(u) == notifications[<<u, "approval_request">>]
Decided(k) == {i \in 1..Len(hist) : hist[i].ev = k}

\* C1: once the expense is 'approved' or 'rejected', no later request changes its status,
\* not even a decision on a record that was still pending.
C1_TerminalStatusIsFinal ==
    [][(/\ expense.status \in {"approved", "rejected"}
        /\ \A r \in 1..Len(approvals) :
              approvals'[r] # approvals[r] => approvals[r].status = "pending")
       => expense'.status = expense.status]_vars

\* C2: a record that is no longer 'pending' is never decided again: through every entry
\* point its status, and the rest of the record, stay as the first decision left them.
C2_RecordDecidedOnce ==
    [][\A r \in 1..Len(approvals) :
          approvals[r].status # "pending" => approvals'[r] = approvals[r]]_vars

\* C3: one percentage rule of threshold 100, two records, both decided 'approved' by two
\* requests: when both have ended the expense is 'approved', 'approved' was written to it
\* exactly once and the owner holds exactly one notification per decision.
C3_ConcurrentApprovalsOnce ==
    (/\ Len(rules) = 1
     /\ rules[1].rule_type = "percentage"
     /\ rules[1].percentage_threshold = 100
     /\ Len(approvals) = 2
     /\ \A p \in Procs : pc[p] = "idle"
     /\ Cardinality(Decided("decide")) = 2
     /\ \A r \in {1, 2} : \E i \in Decided("decide") :
            hist[i].record = r /\ hist[i].status = "approved")
    => /\ expense.status = "approved"
       /\ Cardinality({i \in Decided("write") : hist[i].status = "approved"}) = 1
       /\ notifications[<<Owner, "expense_approved">>] = 2

\* C4: decide-and-resolve is atomic per expense: no two decision requests on different
\* records both load the expense in a non-terminal status and both write to it, the
\* first 'approved' and the second, over it, 'rejected'.
C4_ResolutionSerialized ==
    \A i, j \in Decided("write") :
        ~(/\ i < j
          /\ hist[i].record # hist[j].record
          /\ hist[i].seen \notin TerminalStatus
          /\ hist[j].seen \notin TerminalStatus
          /\ hist[i].status = "approved"
          /\ hist[j].status = "rejected")

\* C5: resolution on a terminal expense writes nothing: neither the status nor the
\* approved_at stamp of an 'approved', 'rejected' or 'cancelled' expense changes.
C5_ResolveNoOpOnTerminal ==
    [][expense.status \in TerminalStatus =>
          /\ expense'.status = expense.status
          /\ expense'.approved_at = expense.approved_at]_vars

\* C6: a cancelled expense stays cancelled, whatever is decided on its pending records.
C6_CancelledStaysCancelled ==
    [][expense.status = "cancelled" => expense'.status = "cancelled"]_vars

C8_ChainIdempotent ==
    expense.exists =>
        LET once  == create_approval_workflow(expense, approvals, notifications,
                                              rules, manager, TimezoneNow)
            twice == create_approval_workflow(once.expense, once.approvals,
                                              once.notifications, rules, manager, TimezoneNow + 1)
        IN twice.approvals = once.approvals

\* the chain was built by the create request and again by the submit request, and it
\* holds at least two records
C8_Witness ==
    /\ notifications[<<Owner, "expense_submitted">>] = 1
    /\ expense.submitted_at # NoTime
    /\ Len(approvals) >= 2

\* C9: at most one approval record per approver of the expense.
C9_OneRecordPerApprover ==
    \A i, j \in 1..Len(approvals) : approvals[i].approver = approvals[j].approver => i = j

\* two applicable rules share a step approver who is also the owner's manager, and
\* the chain is built
C9_Witness ==
    /\ Len(rules) = 2
    /\ \A k \in {1, 2} :
          /\ applies_to_expense(rules[k], expense)
          /\ \E j \in 1..Len(rules[k].steps) : rules[k].steps[j] = manager
    /\ \E k \in {1, 2} : rules[k].is_manager_approver
    /\ HasRecord(approvals, manager)
    /\ Len(approvals) = 2

RequiredApprovers ==
    LET rqs == WorkflowRequests(rules, get_applicable_rules(rules, expense), manager)
    IN {rqs[i].approver : i \in 1..Len(rqs)}

\* C11: interleaved chain constructions for the same expense never fail on the unique
\* constraint, never leave two records or two 'approval_request' notifications for an
\* approver, and once they have ended every required approver has exactly one record
\* and one notification, and nobody else has any.
C11_ConcurrentChainIdempotent ==
    /\ response # "integrity_error"
    /\ \A i, j \in 1..Len(approvals) : approvals[i].approver = approvals[j].approver => i = j
    /\ \A u \in Approvers : ApprovalRequests(u) <= 1
    /\ (Decided("built") # {} /\ \A p \in Procs : pc[p] = "idle")
         => \A u \in Approvers :
               IF u \in RequiredApprovers
               THEN HasRecord(approvals, u) /\ ApprovalRequests(u) = 1
               ELSE ~HasRecord(approvals, u) /\ ApprovalRequests(u) = 0

\* two constructions have ended, each of them lost the create race for some approver,
\* and the chain holds two records
C11_Witness ==
    /\ \A p \in Procs : pc[p] = "idle"
    /\ Cardinality(Decided("built")) = 2
    /\ \A p \in Procs : \E i \in Decided("lost_race") : hist[i].proc = p
    /\ Len(approvals) = 2

\* ------------------------------------------- claims on the normalization
Converted(outcomes) ==
    {i \in Decided("convert") : hist[i].status \in outcomes}

\* C25: whenever the rules were evaluated for the expense (its chain was built or it
\* was submitted) and some rule compares its bounds with the amount, the normalized
\* amount and the rate are set; the two are set or unset together, and once set no
\* request changes them.
C25_NormalizedBeforeRules ==
    /\ []((/\ expense.exists
           /\ expense.submitted_at # NoTime \/ notifications[<<Owner, "expense_submitted">>] > 0
           /\ \E i \in 1..Len(rules) : ReadsAmount(rules[i]))
          => /\ expense.amount_in_company_currency # NoAmount
             /\ expense.exchange_rate # NoRate)
    /\ [](expense.exists
          => (expense.amount_in_company_currency = NoAmount <=> expense.exchange_rate = NoRate))
    /\ [][(expense.exists /\ expense.amount_in_company_currency # NoAmount)
           => /\ expense'.amount_in_company_currency = expense.amount_in_company_currency
              /\ expense'.exchange_rate = expense.exchange_rate]_vars

\* C26: convert_currency with equal currencies returns the amount and the rate 1 without
\* asking the rate source, whatever the source would answer; and an expense entered in
\* the company currency, once normalized, holds its amount unchanged and the rate 1, no
\* request to the rate source having been made for it.
C26_SameCurrencyExact ==
    /\ \A amt \in Amounts, c \in Currencies, src \in SourceAnswers :
          convert_currency(amt, c, c, src)
            = [outcome |-> "ok", converted_amount |-> amt, exchange_rate |-> 1, requests |-> 0]
    /\ (expense.exists /\ expense.currency = CompanyCurrency)
         => /\ expense.amount_in_company_currency \in {NoAmount, expense.amount}
            /\ expense.exchange_rate \in {NoRate, 1}
            /\ pc[FeWorker] = "idle" => expense.amount_in_company_currency = expense.amount
    /\ \A i \in Decided("convert") :
          hist[i].seen = CompanyCurrency => hist[i].record = 0 /\ hist[i].status = "ok"

\* an expense in the company currency was stored by the form and then normalized
C26_Witness ==
    /\ expense.exists
    /\ expense.currency = CompanyCurrency
    /\ expense.amount_in_company_currency = expense.amount
    /\ expense.exchange_rate = 1
    /\ \E i \in Decided("convert") : hist[i].proc = FeWorker /\ hist[i].record = 0

\* C27: between different currencies convert_currency raises ValueError exactly when the
\* source answered with a table that lacks the target, raises RequestException exactly
\* when the source did not answer or answered with a non-success status, and returns
\* amount * rate otherwise; a request whose conversion failed changes no expense.
C27_ConversionErrors ==
    /\ [](\A amt \in Amounts, from \in Currencies, to \in Currencies, src \in SourceAnswers :
             from # to =>
                LET c == convert_currency(amt, from, to, src) IN
                /\ c.outcome = "ValueError" <=> (src.kind = "ok" /\ to \notin DOMAIN src.rates)
                /\ c.outcome = "RequestException" <=> src.kind \in {"unreachable", "http_error"}
                /\ c.outcome = "ok" <=> (src.kind = "ok" /\ to \in DOMAIN src.rates)
                /\ c.outcome = "ok" => c.converted_amount = amt * src.rates[to]
                /\ c.outcome # "ok" => c.converted_amount = NoAmount /\ c.exchange_rate = NoRate)
    /\ [][(/\ Len(hist') = Len(hist) + 1
           /\ hist'[Len(hist')].ev = "convert"
           /\ hist'[Len(hist')].status # "ok")
          => /\ expense' = expense
             /\ approvals' = approvals
             /\ notifications' = notifications]_vars

\* one creation failed on a missing rate and another on the source, and no expense exists
C27_Witness ==
    /\ Converted({"ValueError"}) # {}
    /\ Converted({"RequestException"}) # {}
    /\ ~expense.exists

\* ---------------------------------------------- claims on the resolution
\* a request of this step built the chain: the API create, or a submit that was accepted
ChainBuilt ==
    \/ /\ ~expense.exists
       /\ expense'.exists
       /\ notifications'[<<Owner, "expense_submitted">>] # notifications[<<Owner, "expense_submitted">>]
    \/ /\ expense.exists
       /\ expense'.submitted_at # expense.submitted_at

\* a request of this step decided record r
DecidedRecord(r) == r \in 1..Len(approvals) /\ approvals'[r] # approvals[r]
DecisionStep == \E r \in 1..Len(approvals) : DecidedRecord(r)

ApprovedCount(apps) == Cardinality({i \in 1..Len(apps) : apps[i].status = "approved"})

\* the conditions of the three rule kinds as the specification states them
PercentageCondition(rule, apps) ==
    Len(apps) > 0 /\ ApprovedCount(apps) * 100 >= rule.percentage_threshold * Len(apps)
SpecificCondition(rule, apps) ==
    \E i \in 1..Len(apps) :
        apps[i].approver = rule.specific_approver /\ apps[i].status = "approved"
ConditionHolds(rule, apps) ==
    CASE rule.rule_type = "percentage" -> PercentageCondition(rule, apps)
      [] rule.rule_type = "specific" -> SpecificCondition(rule, apps)
      [] OTHER -> PercentageCondition(rule, apps) \/ SpecificCondition(rule, apps)
SomeConditionHolds(apps) ==
    \E i \in 1..Len(rules) : applies_to_expense(rules[i], expense) /\ ConditionHolds(rules[i], apps)

\* C12: when no rule applies to the expense, building the chain sets the expense to
\* 'approved', stamps approved_at, creates no approval record and sends no
\* 'approval_request' notification.
C12_AutoApprove ==
    [][(ChainBuilt /\ get_applicable_rules(rules, expense') = << >>)
       => /\ expense'.status = "approved"
          /\ expense'.approved_at = clock'
          /\ approvals' = approvals
          /\ \A u \in AllUsers :
                notifications'[<<u, "approval_request">>] = ApprovalRequests(u)]_vars

\* rules exist but none applies, the expense was submitted and auto-approved at that
\* instant, without any record or request
C12_Witness ==
    /\ rules # << >>
    /\ expense.status = "approved"
    /\ expense.submitted_at # NoTime
    /\ expense.approved_at = expense.submitted_at
    /\ approvals = << >>
    /\ \A u \in AllUsers : ApprovalRequests(u) = 0

C14_SpecificApprover ==
    [][\A r \in 1..Len(approvals), i \in 1..Len(rules) :
          (/\ expense.exists
           /\ expense.status \notin TerminalStatus
           /\ applies_to_expense(rules[i], expense)
           /\ rules[i].rule_type = "specific"
           /\ rules[i].specific_approver = approvals[r].approver
           /\ DecidedRecord(r)
           /\ approvals'[r].status = "approved")
          => expense'.status = "approved"]_vars

\* the specific rule comes second, after a percentage rule of threshold 100 that is not
\* met: its approver has approved, another record is pending, the expense is approved
C14_Witness ==
    /\ Len(rules) = 2
    /\ rules[1].rule_type = "percentage"
    /\ rules[1].percentage_threshold = 100
    /\ rules[2].rule_type = "specific"
    /\ expense.status = "approved"
    /\ \E r, q \in 1..Len(approvals) :
          /\ approvals[r].approver = rules[2].specific_approver
          /\ approvals[r].status = "approved"
          /\ approvals[r].approved_at = expense.approved_at
          /\ approvals[q].status = "pending"
    /\ ApprovedCount(approvals) = 1

\* C15: when an applicable 'hybrid' rule has its percentage condition or its
\* specific-approver condition met by the records a decision leaves, that decision
\* leaves the expense 'approved'.
C15_HybridEither ==
    [][(/\ DecisionStep
        /\ \E i \in 1..Len(rules) :
              /\ applies_to_expense(rules[i], expense)
              /\ rules[i].rule_type = "hybrid"
              /\ \/ PercentageCondition(rules[i], approvals')
                 \/ SpecificCondition(rules[i], approvals'))
       => expense'.status = "approved"]_vars

\* C16: a decision on a non-terminal expense that leaves no applicable rule satisfied
\* makes the expense 'rejected' when some record is rejected, and leaves its status as
\* it was when none is.
C16_RejectionStep ==
    [][(/\ DecisionStep
        /\ expense.status \notin TerminalStatus
        /\ ~SomeConditionHolds(approvals'))
       => IF \E i \in 1..Len(approvals') : approvals'[i].status = "rejected"
          THEN expense'.status = "rejected"
          ELSE expense'.status = expense.status]_vars

\* a rejection has just made the expense 'rejected' while another record is pending
C16_Witness ==
    /\ expense.status = "rejected"
    /\ ~SomeConditionHolds(approvals)
    /\ \E r, q \in 1..Len(approvals) :
          /\ approvals[r].status = "rejected"
          /\ approvals[r].approved_at = clock
          /\ approvals[q].status = "pending"

\* C17: a decision that leaves some applicable rule satisfied leaves the expense
\* 'approved' even when a record is rejected: the rejected-record check is skipped.
C17_ApprovalPrecedence ==
    [][(/\ DecisionStep
        /\ SomeConditionHolds(approvals')
        /\ \E i \in 1..Len(approvals') : approvals'[i].status = "rejected")
       => expense'.status = "approved"]_vars

\* C18: a rule applies to the expense iff it is active, its min_amount is absent or at
\* most the amount, and its max_amount is absent or at least the amount (a bound of 0 is
\* a bound); get_applicable_rules returns exactly these rules, in the order of the rules.
C18_RuleApplicability ==
    expense.exists =>
        LET amount == expense.amount_in_company_currency
            Applies(rule) ==
                /\ rule.is_active
                /\ rule.min_amount = NoAmount \/ amount >= rule.min_amount
                /\ rule.max_amount = NoAmount \/ amount <= rule.max_amount
        IN /\ \A i \in 1..Len(rules) : applies_to_expense(rules[i], expense) <=> Applies(rules[i])
           /\ get_applicable_rules(rules, expense)
                = SelectSeq([i \in 1..Len(rules) |-> i], LAMBDA i : Applies(rules[i]))

\* C19: the expense is created as a draft, a draft only becomes 'pending' or
\* 'cancelled', and approval records are decided only while the expense is 'pending'.
C19_StateMachine ==
    [][/\ (~expense.exists /\ expense'.exists) => expense'.status = "draft"
       /\ (expense.exists /\ expense.status = "draft")
             => expense'.status \in {"draft", "pending", "cancelled"}
       /\ DecisionStep => expense.status = "pending"]_vars

\* C20: a decision sets the status, the comments and the timestamp of the one record it
\* decides, changes no other record, and sends the owner exactly one notification, of
\* the type of the outcome; no other request sends such a notification.
C20_DecisionEffects ==
    [][/\ \A r \in 1..Len(approvals) :
             DecidedRecord(r)
             => /\ approvals'[r].status \in {"approved", "rejected"}
                /\ approvals'[r].comments = RequestComments
                /\ approvals'[r].approved_at = clock'
                /\ approvals'[r].approver = approvals[r].approver
                /\ approvals'[r].step = approvals[r].step
                /\ Len(approvals') = Len(approvals)
                /\ \A q \in 1..Len(approvals) : q # r => approvals'[q] = approvals[q]
                /\ \A t \in {"approved", "rejected"} :
                      notifications'[<<Owner, "expense_" \o t>>]
                        = notifications[<<Owner, "expense_" \o t>>]
                          + (IF t = approvals'[r].status THEN 1 ELSE 0)
                /\ \A u \in Approvers, t \in NOTIFICATION_TYPES :
                      notifications'[<<u, t>>] = notifications[<<u, t>>]
       /\ ~DecisionStep
             => \A t \in {"approved", "rejected"} :
                   notifications'[<<Owner, "expense_" \o t>>]
                     = notifications[<<Owner, "expense_" \o t>>]]_vars

\* one record was decided with comments and a timestamp, another one is untouched, and
\* the owner holds the one notification of that decision
C20_Witness ==
    \E r, q \in 1..Len(approvals) :
        /\ approvals[r].status = "rejected"
        /\ approvals[r].comments = RequestComments
        /\ approvals[r].approved_at = clock
        /\ approvals[q] = NewApproval(approvals[q].approver, approvals[q].step)
        /\ notifications[<<Owner, "expense_rejected">>] = 1
        /\ notifications[<<Owner, "expense_approved">>] = 0

\* C28: deleting a rule (and with it its steps) deletes no approval record and changes
\* none: the records created from its steps keep their approver and their status.
C28_RetiringKeepsHistory ==
    [][(\E i \in 1..Len(rules) : rules[i] # DeletedRule /\ rules'[i] = DeletedRule)
       => /\ Len(approvals') = Len(approvals)
          /\ \A r \in 1..Len(approvals) :
                /\ approvals'[r].approver = approvals[r].approver
                /\ approvals'[r].status = approvals[r].status]_vars

\* C29: every stored rule of kind 'percentage' or 'hybrid' has a threshold, and every
\* stored rule of kind 'specific' or 'hybrid' has a specific approver.
C29_RulesWellFormed ==
    \A i \in 1..Len(rules) :
        /\ rules[i].rule_type \in {"percentage", "hybrid"}
              => rules[i].percentage_threshold # NoThreshold
        /\ rules[i].rule_type \in {"specific", "hybrid"}
              => rules[i].specific_approver # NoUser

\* the request of this step raised at the statement `fault`
Raised(fault) ==
    /\ Len(hist') = Len(hist) + 1
    /\ hist'[Len(hist')].ev = "fault"
    /\ hist'[Len(hist')].seen = fault

\* C22: when the notification of a decision cannot be created, the decided record stays
\* stored and the expense is resolved all the same; when a notification of the chain
\* cannot be created, every required approver still gets a record.
C22_NotificationNeverFailsStep ==
    [][Raised("notify")
       => IF hist'[Len(hist')].status = "submit"
          THEN {approvals'[r].approver : r \in 1..Len(approvals')}
                 = {approvals[r].approver : r \in 1..Len(approvals)}
                   \cup {rq.approver : rq \in
                           {WorkflowRequests(rules, get_applicable_rules(rules, expense'), manager)[k] :
                              k \in 1..Len(WorkflowRequests(rules,
                                             get_applicable_rules(rules, expense'), manager))}}
          ELSE /\ approvals'[hist'[Len(hist')].record].status = hist'[Len(hist')].status
               /\ expense' = check_expense_status(expense, approvals', rules, clock')]_vars

\* C23: a decision that ends with an error, wherever it was raised, leaves the status,
\* the comments and the timestamp of the record, and the status of the expense, as they
\* were before the request.
C23_FailedDecisionNoChange ==
    [][response' = "decide_failed"
       => /\ approvals' = approvals
          /\ expense'.status = expense.status]_vars

\* C24: a submission that fails part-way leaves the expense as it was before the
\* request ('draft'), and none of the records and notifications of the chain.
C24_FailedSubmitNoChange ==
    [][response' = "submit_failed"
       => /\ expense' = expense
          /\ approvals' = approvals
          /\ notifications' = notifications]_vars

\* C21: every decision is followed, in the same request, by a resolution that sees the
\* decided record: the expense a decision leaves is the resolution of the records it
\* leaves, and in no state with a decided record would a resolution still change the
\* status of the expense.
C21_ResolutionSynchronous ==
    /\ [][DecisionStep
             => expense' = check_expense_status(expense, approvals', rules, clock')]_vars
    /\ []((\E r \in 1..Len(approvals) : approvals[r].status # "pending")
             => check_expense_status(expense, approvals, rules, clock).status = expense.status)

\* a rejection has just been stored and the expense is already 'rejected'
C21_Witness ==
    /\ expense.status = "rejected"
    /\ \E r \in 1..Len(approvals) :
          approvals[r].status = "rejected" /\ approvals[r].approved_at = clock
    /\ notifications[<<Owner, "expense_rejected">>] = 1

\* C30: building the chain under a non-empty set of applicable rules leaves a record for
\* exactly the approvers that had one, the owner's manager when an applicable rule asks
\* for the manager and the owner has one, and the approver of every step of every
\* applicable rule; the old records are kept, every new record is 'pending' and
\* undecided, and a new record with a step holds a step of an applicable rule whose
\* approver it is (the manager's record is created first, without a step).
C30_ChainContents ==
    [][(ChainBuilt /\ get_applicable_rules(rules, expense') # << >>)
       => LET ids == get_applicable_rules(rules, expense')
              applicable == {ids[k] : k \in 1..Len(ids)}
              before == {approvals[r].approver : r \in 1..Len(approvals)}
              mgrs == IF manager # NoUser /\ \E i \in applicable : rules[i].is_manager_approver
                      THEN {manager} ELSE {}
              steppers == {rules[i].steps[j] : <<i, j>> \in
                              {ij \in applicable \X (1..4) : ij[2] <= Len(rules[ij[1]].steps)}}
          IN /\ {approvals'[r].approver : r \in 1..Len(approvals')} = before \cup mgrs \cup steppers
             /\ Len(approvals') >= Len(approvals)
             /\ \A r \in 1..Len(approvals) : approvals'[r] = approvals[r]
             /\ \A r \in (Len(approvals) + 1)..Len(approvals') :
                   /\ approvals'[r].status = "pending"
                   /\ approvals'[r].approved_at = NoTime
                   /\ approvals'[r].approver \notin before
                   /\ IF approvals'[r].step = NoStep
                      THEN approvals'[r].approver = manager
                      ELSE /\ approvals'[r].step.rule \in applicable
                           /\ approvals'[r].step.step_number
                                 \in 1..Len(rules[approvals'[r].step.rule].steps)
                           /\ rules[approvals'[r].step.rule].steps[approvals'[r].step.step_number]
                                 = approvals'[r].approver
             /\ \A i \in applicable : \A j \in 1..Len(rules[i].steps) :
                   (rules[i].steps[j] \notin before \cup mgrs)
                   => \E r \in (Len(approvals) + 1)..Len(approvals') :
                         /\ approvals'[r].approver = rules[i].steps[j]
                         /\ approvals'[r].step # NoStep]_vars

\* the chain was built on submit for a manager who is no step approver and for two steps:
\* three pending records, the manager's without a step, the others with theirs
C30_Witness ==
    /\ expense.submitted_at # NoTime
    /\ manager = "a3"
    /\ Len(approvals) = 3
    /\ approvals[1] = NewApproval("a3", NoStep)
    /\ approvals[2] = NewApproval("a1", [rule |-> 1, step_number |-> 1])
    /\ approvals[3] = NewApproval("a2", [rule |-> 1, step_number |-> 2])

\* C31: when some rule applies, building the chain takes no decision on the expense:
\* in every reachable state, whatever the records and their statuses, the call returns
\* the expense with its status and approved_at as they were; the create request leaves
\* the draft it stored, the submit request the 'pending' it stored, approved_at untouched.
C31_ChainTakesNoDecision ==
    /\ []((expense.exists /\ get_applicable_rules(rules, expense) # << >>)
            => LET w == create_approval_workflow(expense, approvals, notifications,
                                                 rules, manager, TimezoneNow)
               IN /\ w.expense.status = expense.status
                  /\ w.expense.approved_at = expense.approved_at)
    /\ [][(ChainBuilt /\ get_applicable_rules(rules, expense') # << >>)
             => /\ expense'.status = (IF expense.exists THEN "pending" ELSE "draft")
                /\ expense'.approved_at = expense.approved_at]_vars

\* the chain was built by the create request, a record was approved without resolving
\* the draft, and the submit request built the chain again: the expense is 'pending'
C31_Witness ==
    /\ notifications[<<Owner, "expense_submitted">>] = 1
    /\ expense.submitted_at = clock
    /\ expense.status = "pending"
    /\ expense.approved_at = NoTime
    /\ get_applicable_rules(rules, expense) # << >>
    /\ \E r \in 1..Len(approvals) :
          approvals[r].status = "approved" /\ approvals[r].approved_at < expense.submitted_at

\* C32: the expense becomes 'approved' or 'rejected' only through the workflow: a step
\* that makes it 'approved' either builds the chain with no applicable rule or is a
\* decision whose resolution finds an applicable rule satisfied, a step that makes it
\* 'rejected' is a decision that leaves a rejected record; no create, update or partial
\* update of the expense sets the status.
C32_StatusOnlyThroughWorkflow ==
    [][/\ (expense.status # "approved" /\ expense'.status = "approved")
             => \/ ChainBuilt /\ get_applicable_rules(rules, expense') = << >>
                \/ DecisionStep /\ SomeConditionHolds(approvals')
       /\ (expense.status # "rejected" /\ expense'.status = "rejected")
             => DecisionStep /\ AnyRejected(approvals')]_vars

\* C37: a record leaves 'pending' only in a request of its approver, and in that request
\* the expense is resolved from the records the decision leaves.
C37_OnlyApproverDecides ==
    [][\A r \in 1..Len(approvals) :
          (approvals[r].status = "pending" /\ approvals'[r].status # "pending")
          => /\ hist' # hist
             /\ hist'[1].seen = approvals[r].approver
             /\ expense' = check_expense_status(expense, approvals', rules, clock')]_vars

\* C33: no expense is stuck: under rules that apply, once every record of the expense is
\* decided 'approved' the expense is 'approved', and once every record is decided the
\* expense is in a terminal status; also under rules that are all 'specific' or all
\* 'hybrid'.
C33_NoStuckExpense ==
    (expense.exists /\ approvals # << >> /\ get_applicable_rules(rules, expense) # << >>)
    => /\ (\A r \in 1..Len(approvals) : approvals[r].status = "approved")
             => expense.status = "approved"
       /\ (\A r \in 1..Len(approvals) : approvals[r].status # "pending")
             => expense.status \in TerminalStatus

\* C34: building the chain under a non-empty set of applicable rules leaves at least one
\* record, and a record for the specific approver of every applicable 'specific' rule,
\* also when the rule has no steps and the owner has no manager.
C34_ChainHoldsRuleApprovers ==
    [][(ChainBuilt /\ get_applicable_rules(rules, expense') # << >>)
       => /\ Len(approvals') >= 1
          /\ \A i \in 1..Len(rules) :
                (applies_to_expense(rules[i], expense') /\ rules[i].rule_type = "specific")
                => HasRecord(approvals', rules[i].specific_approver)]_vars

\* C35: every approver with a pending record of an expense that is not terminal finds
\* the expense in their pending_approvals listing, also when the chain was built by the
\* create request and the expense was never submitted.
C35_PendingVisible ==
    \A r \in 1..Len(approvals) :
        (approvals[r].status = "pending" /\ expense.status \notin TerminalStatus)
        => expense \in pending_approvals(expense, approvals, approvals[r].approver)

\* C36: a decision 'rejected' on an expense that is not terminal never leaves the
\* expense 'approved', whatever the applicable rules are, a percentage rule of
\* threshold 0 included.
C36_RejectionNeverApproves ==
    [][\A r \in 1..Len(approvals) :
          (/\ expense.exists
           /\ expense.status \notin TerminalStatus
           /\ DecidedRecord(r)
           /\ approvals'[r].status = "rejected")
          => expense'.status # "approved"]_vars

\* C38: building the chain keeps every record that exists as it is (approver, step,
\* status, comments, timestamp), in every reachable state and in the create and submit
\* requests: a vote cast before the call is the same vote after it.
C38_RebuildPreservesVotes ==
    /\ [](expense.exists
            => LET w == create_approval_workflow(expense, approvals, notifications,
                                                 rules, manager, TimezoneNow)
               IN /\ Len(w.approvals) >= Len(approvals)
                  /\ \A r \in 1..Len(approvals) : w.approvals[r] = approvals[r])
    /\ [][ChainBuilt
             => /\ Len(approvals') >= Len(approvals)
                /\ \A r \in 1..Len(approvals) : approvals'[r] = approvals[r]]_vars

\* a record was approved with comments while the expense was a draft, and the submit
\* request has just built the chain again: the vote is there, next to a pending record
C38_Witness ==
    /\ notifications[<<Owner, "expense_submitted">>] = 1
    /\ expense.submitted_at = clock
    /\ \E r, q \in 1..Len(approvals) :
          /\ approvals[r].status = "approved"
          /\ approvals[r].comments = RequestComments
          /\ approvals[r].approved_at # NoTime
          /\ approvals[r].approved_at < expense.submitted_at
          /\ approvals[q].status = "pending"

\* C39: a submit request on an expense that is not a draft, and a cancel request on an
\* expense that is neither a draft nor pending, answer with an error and change neither
\* the expense nor the records nor the notifications; a submit request on a draft stores
\* 'pending' and submitted_at and builds the chain from that expense. No request moves
\* an expense that is not a draft to 'pending' or stamps submitted_at again, and none
\* cancels an approved or rejected expense.
C39_GuardedActions ==
    [][/\ (Submit /\ expense.status # "draft")
             => response' = "error" /\ UNCHANGED <<expense, approvals, notifications>>
       /\ (Cancel /\ expense.status \notin {"draft", "pending"})
             => response' = "error" /\ UNCHANGED <<expense, approvals, notifications>>
       /\ (Submit /\ expense.status = "draft")
             => LET e1 == [expense EXCEPT !.status = "pending", !.submitted_at = clock']
                    w  == create_approval_workflow(e1, approvals, notifications,
                                                   rules, manager, clock')
                IN /\ response' = "ok"
                   /\ expense'.submitted_at = clock'
                   /\ expense'.status \in {"pending", "approved"}
                   /\ expense'.status = "approved" <=> get_applicable_rules(rules, e1) = << >>
                   /\ approvals' = w.approvals
                   /\ notifications' = w.notifications
       /\ (expense.exists /\ expense.status # "draft")
             => /\ expense'.submitted_at = expense.submitted_at
                /\ expense'.status = "pending" => expense.status = "pending"
       /\ expense.status \in {"approved", "rejected"} => expense'.status # "cancelled"]_vars

\* a submitted expense whose records are all pending, and the last request was refused:
\* it was a second submit
C39_Witness ==
    /\ response = "error"
    /\ expense.status = "pending"
    /\ expense.submitted_at # NoTime
    /\ expense.submitted_at < clock
    /\ approvals # << >>
    /\ \A r \in 1..Len(approvals) : approvals[r].status = "pending"

TypeOK ==
    /\ expense.status \in STATUS_CHOICES
    /\ \A i \in 1..Len(rules) : rules[i].rule_type \in RULE_TYPES \cup {"deleted"}
    /\ \A i \in 1..Len(approvals) : approvals[i].status \in APPROVAL_STATUS_CHOICES
    /\ clock \in 0..MaxClock

====
